---- MODULE Spec2Model ----
(***************************************************************************)
(* Model of the React hook useSubscriptionTier                             *)
(* (src/src/hooks/useSubscriptionTier.tsx).                                *)
(*                                                                         *)
(* The hook keeps three pieces of state (tier, loading, diagnostics) and   *)
(* an effect that depends on the `user` argument.  Each run of the effect  *)
(* with a present user starts one asynchronous resolveSubscriptionTier()   *)
(* call; that call suspends at every `await` on the backend and resumes    *)
(* when the backend answers.  Several calls can be in flight at once: the  *)
(* effect has no cleanup and no cancellation.                              *)
(*                                                                         *)
(* The backend (profiles table, subscriptions table, the RPC               *)
(* get_auth_user_by_email) is the environment.  A query is evaluated on    *)
(* the table contents at the moment its answer is delivered.               *)
(*                                                                         *)
(* Optional JavaScript values (null / undefined / a value) are modelled as *)
(* sequences of length 0 or 1.                                             *)
(***************************************************************************)
EXTENDS Integers, Sequences, FiniteSets, Bags, TLC

\* ------------------------------------------------------------------------
\* Bounds of the model
\* ------------------------------------------------------------------------
\* number of resolveSubscriptionTier() calls started in one behaviour
MaxRes == 2

\* ------------------------------------------------------------------------
\* Optional values
\* ------------------------------------------------------------------------
None == <<>>
Some(v) == <<v>>

\* ------------------------------------------------------------------------
\* Identities, e-mail addresses, tiers
\* ------------------------------------------------------------------------
\* An e-mail address is a sequence of characters.
EmailUnderscore == <<"a", "_", "@", "x">>
EmailUpper == <<"A", "b", "@", "x">>
EmailLower == <<"a", "b", "@", "x">>

\* the identities the host application can pass to the hook (User: id, email)
Users == { [id |-> 1, email |-> EmailUnderscore],
           [id |-> 2, email |-> EmailUpper] }

\* values the RPC get_auth_user_by_email can return: nothing, a falsy value, an id
RpcResults == {None, Some(0), Some(9)}

\* ------------------------------------------------------------------------
\* Stage labels pushed to diagnosticData.profileLookupStages
\* ------------------------------------------------------------------------
Stage1 == "Stage 1: Exact email match"
Stage2 == "Stage 2: Case-insensitive match"
Stage3 == "Stage 3: RPC lookup"
Stage4 == "Stage 4: Emergency profile creation"
StageCreated == "Emergency profile created successfully"
StageFatal == "FATAL: Profile creation failed"

\* error messages that end up in diagnostics.profileError
MsgProfileCreation == "Profile creation blocked by RLS"
MsgUnknown == "Unknown error"
MsgSubscription == "subscription query failed"

\* payload copied to diagnosticData.subscriptionError
SubscriptionErrorPayload == [message |-> MsgSubscription, code |-> "PGRST"]

\* ------------------------------------------------------------------------
\* Pure helpers: what the backend and the JavaScript runtime compute
\* ------------------------------------------------------------------------
\* A character is a string of length one; the characters of the model are the
\* printable ASCII characters, code points 32 to 126, except the grave
\* accent (code point 96), which a TLA+ string cannot hold.
UpperLetters == <<"A", "B", "C", "D", "E", "F", "G", "H", "I", "J", "K", "L", "M",
                  "N", "O", "P", "Q", "R", "S", "T", "U", "V", "W", "X", "Y", "Z">>

LowerLetters == <<"a", "b", "c", "d", "e", "f", "g", "h", "i", "j", "k", "l", "m",
                  "n", "o", "p", "q", "r", "s", "t", "u", "v", "w", "x", "y", "z">>

Digits == <<"0", "1", "2", "3", "4", "5", "6", "7", "8", "9">>

\* the characters with code points 32 to 95, in code-point order
AsciiLow ==
    <<" ", "!", "\"", "#", "$", "%", "&", "'", "(", ")", "*", "+", ",", "-",
      ".", "/">>
    \o Digits \o <<":", ";", "<", "=", ">", "?", "@">>
    \o UpperLetters \o <<"[", "\\", "]", "^", "_">>

\* the characters with code points 97 to 126, in code-point order
AsciiHigh == LowerLetters \o <<"{", "|", "}", "~">>

\* the code point of every character of the model
CodePoints ==
    [c \in {AsciiLow[i] : i \in 1..Len(AsciiLow)}
            \cup {AsciiHigh[i] : i \in 1..Len(AsciiHigh)} |->
        IF \E i \in 1..Len(AsciiLow) : AsciiLow[i] = c
        THEN 31 + (CHOOSE i \in 1..Len(AsciiLow) : AsciiLow[i] = c)
        ELSE 96 + (CHOOSE i \in 1..Len(AsciiHigh) : AsciiHigh[i] = c)]

\* the code point of a character (String.prototype.charCodeAt)
CodeOf(c) == CodePoints[c]

HexDigits == Digits \o <<"A", "B", "C", "D", "E", "F">>

\* the elements of a sequence
Range(q) == {q[i] : i \in 1..Len(q)}

\* case folding used by ILIKE: A-Z become a-z, every other character is kept
LowerOf ==
    [c \in Range(UpperLetters) |->
        LowerLetters[CHOOSE i \in 1..Len(UpperLetters) : UpperLetters[i] = c]]

Lower(c) == IF c \in DOMAIN LowerOf THEN LowerOf[c] ELSE c

\* PostgREST takes "*" in the pattern of like / ilike as an alias of "%"
RECURSIVE StarToPercent(_)
StarToPercent(pattern) ==
    IF pattern = <<>> THEN <<>>
    ELSE <<IF Head(pattern) = "*" THEN "%" ELSE Head(pattern)>>
         \o StarToPercent(Tail(pattern))

\* the pattern consists of "%" only (it matches the empty text)
RECURSIVE AllPercent(_)
AllPercent(p) == p = <<>> \/ (Head(p) = "%" /\ AllPercent(Tail(p)))

\* PostgreSQL's matcher of ILIKE on text t and pattern p: "_" matches one
\* character, "%" any run, a backslash makes the next pattern character
\* literal, the rest is compared ignoring case.  The result is "TRUE",
\* "FALSE", "ABORT" (no match, the text is too short for the pattern) or
\* "ERROR" (the matcher came to a backslash that ends the pattern).
RECURSIVE MatchText(_, _), MatchAfterPercent(_, _), MatchScan(_, _)
MatchText(t, p) ==
    IF p = <<"%">> THEN "TRUE"
    ELSE IF t # <<>> /\ p # <<>>
    THEN CASE Head(p) = "\\" ->
                 IF Len(p) = 1 THEN "ERROR"
                 ELSE IF Lower(p[2]) # Lower(Head(t)) THEN "FALSE"
                 ELSE MatchText(Tail(t), Tail(Tail(p)))
           [] Head(p) = "%" -> MatchAfterPercent(t, Tail(p))
           [] Head(p) = "_" -> MatchText(Tail(t), Tail(p))
           [] OTHER ->
                 IF Lower(Head(p)) # Lower(Head(t)) THEN "FALSE"
                 ELSE MatchText(Tail(t), Tail(p))
    ELSE IF t # <<>> THEN "FALSE"
    ELSE IF AllPercent(p) THEN "TRUE"
    ELSE "ABORT"

\* after a "%": further "%" are skipped, every "_" takes one character, then
\* the rest of the pattern is tried at each position of the text
MatchAfterPercent(t, p) ==
    IF p = <<>> THEN "TRUE"
    ELSE IF Head(p) = "%" THEN MatchAfterPercent(t, Tail(p))
    ELSE IF Head(p) = "_"
    THEN IF t = <<>> THEN "ABORT" ELSE MatchAfterPercent(Tail(t), Tail(p))
    ELSE IF Head(p) = "\\" /\ Len(p) < 2 THEN "ERROR"
    ELSE MatchScan(t, p)

MatchScan(t, p) ==
    LET first == Lower(IF Head(p) = "\\" THEN p[2] ELSE Head(p))
    IN IF t = <<>> THEN "ABORT"
       ELSE IF Lower(Head(t)) # first THEN MatchScan(Tail(t), p)
       ELSE LET matched == MatchText(t, p)
            IN IF matched # "FALSE" THEN matched ELSE MatchScan(Tail(t), p)

\* the e-mail addresses of the model, and the matcher's result on each pair
\* of them, computed once
Emails == {EmailUnderscore, EmailUpper, EmailLower}

ILikeOnEmails ==
    [pattern \in Emails, s \in Emails |-> MatchText(s, StarToPercent(pattern))]

\* the matcher's result for .ilike('email', pattern) on a row whose email is s
ILikeResult(pattern, s) ==
    IF pattern \in Emails /\ s \in Emails
    THEN ILikeOnEmails[pattern, s]
    ELSE MatchText(s, StarToPercent(pattern))

\* .ilike('email', pattern) on a row whose email is s: the row is selected
ILike(pattern, s) == ILikeResult(pattern, s) = "TRUE"

\* .ilike('email', pattern) on a row whose email is s: the database raises
\* "LIKE pattern must not end with escape character"
ILikeRaises(pattern, s) == ILikeResult(pattern, s) = "ERROR"

\* characters encodeURIComponent leaves alone: A-Z a-z 0-9 - _ . ! ~ * ' ( )
Unreserved ==
    Range(UpperLetters) \cup Range(LowerLetters) \cup Range(Digits)
        \cup {"-", "_", ".", "!", "~", "*", "'", "(", ")"}

\* every other character becomes "%" and the two upper-case hexadecimal
\* digits of its code point
Escapes ==
    [c \in DOMAIN CodePoints |->
        <<"%", HexDigits[(CodeOf(c) \div 16) + 1], HexDigits[(CodeOf(c) % 16) + 1]>>]

EscapeChar(c) == Escapes[c]

RECURSIVE encodeURIComponent(_)
encodeURIComponent(s) ==
    IF s = <<>> THEN <<>>
    ELSE (IF Head(s) \in Unreserved THEN <<Head(s)>> ELSE EscapeChar(Head(s)))
         \o encodeURIComponent(Tail(s))

\* a set of integers as an ascending sequence
RECURSIVE Ascending(_)
Ascending(S) ==
    IF S = {} THEN <<>>
    ELSE LET m == CHOOSE x \in S : \A y \in S : x <= y
         IN <<m>> \o Ascending(S \ {m})

\* JavaScript truthiness of an optional RPC result
Truthy(v) == v # None /\ v[1] # 0

\* ------------------------------------------------------------------------
\* Backend queries
\* ------------------------------------------------------------------------
\* A reply is what supabase-js resolves to: { data, error }.
Reply(data, error) == [data |-> data, error |-> error]

\* from('profiles').select('id').eq('email', email).single()
\* (a row's id is its position in the table)
\* single() answers with the row when exactly one row matches, otherwise
\* with data = null and an error
ExactQuery(P, email, fail) ==
    LET ids == {i \in 1..Len(P) : P[i].email = email}
    IN IF ~fail /\ Cardinality(ids) = 1
       THEN Reply(Ascending(ids), FALSE)
       ELSE Reply(None, TRUE)

\* from('profiles').select('id').ilike('email', email)
\* the query fails as a whole when the pattern raises on a row
CiQuery(P, email, fail) ==
    LET result == [i \in 1..Len(P) |-> ILikeResult(email, P[i].email)]
        ids == {i \in 1..Len(P) : result[i] = "TRUE"}
    IN IF fail \/ \E i \in 1..Len(P) : result[i] = "ERROR"
       THEN Reply(None, TRUE)
       ELSE Reply(Ascending(ids), FALSE)

\* variant: the rows are ordered ascending, the oldest row comes first
EarliestRows(S, uid) ==
    {r \in S : /\ r.login_id = uid
               /\ \A q \in S : q.login_id = uid => r.created_at <= q.created_at}

\* subscription rows of one identity with the latest created_at
LatestRows(S, uid) ==
    {r \in S : /\ r.login_id = uid
               /\ \A q \in S : q.login_id = uid => q.created_at <= r.created_at}

\* the replies from('subscriptions').select('tier').eq('login_id', uid)
\* .order('created_at', {ascending: false}).limit(1) can give: one row with the
\* latest created_at (any of them when several rows tie), or no row
SubscriptionReplies(S, uid, fail) ==
    IF fail THEN {Reply(None, TRUE)}
    ELSE IF LatestRows(S, uid) = {} THEN {Reply(<<>>, FALSE)}
    ELSE {Reply(<<[tier |-> r.tier]>>, FALSE) : r \in LatestRows(S, uid)}

\* variant: the fallback || 'free' is missing
ActiveTierNoFallback(data) == IF data # <<>> THEN data[1].tier ELSE ""

\* const activeTier = subscriptionData?.[0]?.tier || 'free'
ActiveTier(data) ==
    IF data # <<>> /\ data[1].tier # "" THEN data[1].tier ELSE "free"

\* ------------------------------------------------------------------------
\* State
\* ------------------------------------------------------------------------
VARIABLES
    user,           \* the hook's argument: None or Some(identity)
    effectPending,  \* a render has committed a changed `user` (or the first
                    \* render has committed) and its effect has not run yet
    tier,           \* useState<string>('free')
    loading,        \* useState(true)
    diagnostics,    \* useState<DiagnosticData>({ profileLookupStages: [] })
    profiles,       \* backend table "profiles": sequence of rows, id = position
    subscriptions,  \* backend table "subscriptions": set of rows
    started,        \* number of resolveSubscriptionTier() calls started so far
    inflight,       \* bag of the calls suspended at an await: their local state
    lastDone        \* None, or Some(what ended the call that completed last):
                    \* its identity, its last request and whether that
                    \* request's reply was an error

vars == <<user, effectPending, tier, loading, diagnostics, profiles, subscriptions,
          started, inflight, lastDone>>

\* const diagnosticData: DiagnosticData = { profileLookupStages: [] }
EmptyDiagnostics ==
    [profileLookupStages |-> <<>>, finalTier |-> None,
     subscriptionError |-> None, profileError |-> None]

\* a profile row that exists before the hook runs (auth_id 0: not bound to
\* one of Users)
Row(email) == [email |-> email, auth_id |-> 0]

\* contents of the profiles table before the hook is mounted: empty; an exact
\* match for identity 1; one case-insensitive match for either identity; two
\* case-insensitive matches for identity 1 and an exact one for identity 2;
\* two exact matches for identity 2
InitProfileTables ==
    { <<>>,
      <<Row(EmailUnderscore)>>,
      <<Row(EmailLower)>>,
      <<Row(EmailLower), Row(EmailUpper)>>,
      <<Row(EmailUpper), Row(EmailUpper)>> }

\* a subscription row; the tier "" stands for an empty or null tier
Sub(uid, t, c) == [login_id |-> uid, tier |-> t, created_at |-> c]

\* contents of the subscriptions table (the hook never writes it):
\*   identity 1 has an older and a newer row, identity 2 a row with an empty tier;
\*   identity 1 has two rows with the same timestamp, identity 2 has no row
SubscriptionTables ==
    { {Sub(1, "pro", 1), Sub(1, "gold", 2), Sub(2, "", 1)},
      {Sub(1, "pro", 1), Sub(1, "gold", 1)} }

Init ==
    /\ user \in {None} \cup {Some(u) : u \in Users}
    /\ effectPending = TRUE
    /\ tier = "free"
    /\ loading = TRUE
    /\ diagnostics = EmptyDiagnostics
    /\ profiles \in InitProfileTables
    /\ subscriptions \in SubscriptionTables
    /\ started = 0
    /\ inflight = EmptyBag
    /\ lastDone = None

\* ------------------------------------------------------------------------
\* resolveSubscriptionTier: the code between two awaits, as functions on the
\* call's local state r = [user, pc, diagnosticData, exactMatchProfile] and
\* its traffic with the backend (issued: the requests sent, received: the data
\* of the replies)
\* ------------------------------------------------------------------------
\* variant: the list is overwritten with the new label
PushReplaces(r, label) ==
    [r EXCEPT !.diagnosticData.profileLookupStages = <<label>>]

\* diagnosticData.profileLookupStages.push(label)
Push(r, label) ==
    [r EXCEPT !.diagnosticData.profileLookupStages = Append(@, label)]

\* send a request and suspend at its await
Issue(r, op, arg) ==
    [r EXCEPT !.pc = op, !.issued = Append(@, [op |-> op, arg |-> arg])]

\* resume with the reply of the pending request; the call keeps its data
Received(r, reply) == [r EXCEPT !.received = Append(@, reply.data)]

\* variant: the subscription lookup is keyed by the resolved profile's id
SubscriptionLookupByProfile(r) == Issue(r, "sub", r.exactMatchProfile)

\* lines 95-100: the subscription lookup, keyed by user.id
SubscriptionLookup(r) == Issue(r, "sub", <<r.user.id>>)

\* variant: the guard of stage 4 is missing
CheckStage4Always(r) == Issue(Push(r, Stage4), "insert", r.user.email)

\* lines 62-72: stage 4 runs when no profile has been found
CheckStage4(r) ==
    IF r.exactMatchProfile = None
    THEN Issue(Push(r, Stage4), "insert", r.user.email)
    ELSE SubscriptionLookup(r)

\* variant: the guard of stage 3 is missing
CheckStage3Always(r) ==
    Issue(Push(r, Stage3), "rpc", encodeURIComponent(r.user.email))

\* lines 49-55: stage 3 runs when no profile has been found
CheckStage3(r) ==
    IF r.exactMatchProfile = None
    THEN Issue(Push(r, Stage3), "rpc", encodeURIComponent(r.user.email))
    ELSE CheckStage4(r)

\* variant: the guard of stage 2 is missing
CheckStage2Always(r) == Issue(Push(r, Stage2), "ci", r.user.email)

\* lines 37-42: stage 2 runs when the exact query gave no profile
CheckStage2(r) ==
    IF r.exactMatchProfile = None
    THEN Issue(Push(r, Stage2), "ci", r.user.email)
    ELSE CheckStage3(r)

\* lines 24-35: the call up to its first await
NewResolution(u) ==
    Issue(Push([user |-> u, pc |-> "start", diagnosticData |-> EmptyDiagnostics,
                exactMatchProfile |-> None, issued |-> <<>>, received |-> <<>>],
               Stage1),
          "exact", u.email)

\* line 31: let { data: exactMatchProfile } = await ...
AfterExact(r, reply) ==
    CheckStage2([Received(r, reply) EXCEPT !.exactMatchProfile = reply.data])

\* variant: the first of several matching rows is accepted
AcceptCiFirst(r, data) ==
    IF Len(data) >= 1 THEN [r EXCEPT !.exactMatchProfile = Some(data[1])] ELSE r

\* lines 44-46: if (ciMatchProfiles?.length === 1) exactMatchProfile = ciMatchProfiles[0]
AcceptCi(r, data) ==
    IF Len(data) = 1 THEN [r EXCEPT !.exactMatchProfile = Some(data[1])] ELSE r

AfterCi(r, reply) == CheckStage3(AcceptCi(Received(r, reply), reply.data))

\* lines 57-59: if (rpcResult) exactMatchProfile = { id: rpcResult }
AcceptRpc(r, data) ==
    IF Truthy(data) THEN [r EXCEPT !.exactMatchProfile = data] ELSE r

AfterRpc(r, reply) == CheckStage4(AcceptRpc(Received(r, reply), reply.data))

\* variant: after the insert the profile is read back with the exact query
AfterInsertOkRereads(r, reply) ==
    Issue(Push([Received(r, reply) EXCEPT !.exactMatchProfile = reply.data],
               StageCreated),
          "exact", r.user.email)

\* lines 86-87: the insert succeeded
AfterInsertOk(r, reply) ==
    SubscriptionLookup(
        Push([Received(r, reply) EXCEPT !.exactMatchProfile = reply.data],
             StageCreated))

\* variant: the inner catch does not push the fatal marker
AfterInsertErrorNoMarker(r, reply) == [Received(r, reply) EXCEPT !.pc = "done"]

\* lines 74-91: the insert failed; the inner catch pushes the fatal marker
AfterInsertError(r, reply) ==
    [Push(Received(r, reply), StageFatal) EXCEPT !.pc = "done"]

\* lines 109-117: the subscription query failed
AfterSubError(r, reply) ==
    [Received(r, reply) EXCEPT
        !.diagnosticData.subscriptionError = Some(SubscriptionErrorPayload),
        !.pc = "done"]

\* lines 119-120: the subscription query succeeded
AfterSubOk(r, reply) ==
    [Received(r, reply) EXCEPT
        !.diagnosticData.finalTier = Some(ActiveTier(reply.data)),
        !.pc = "done"]

\* ------------------------------------------------------------------------
\* The effect (lines 18-136)
\* ------------------------------------------------------------------------
\* variant: the effect also resets the tier when the user is absent
EffectAbsentResetsTier ==
    /\ loading' = FALSE
    /\ tier' = "free"
    /\ UNCHANGED <<diagnostics, profiles, subscriptions, started, inflight,
                   lastDone>>

\* lines 19-22: if (!user) { setLoading(false); return; }
EffectAbsent ==
    /\ loading' = FALSE
    /\ UNCHANGED <<tier, diagnostics, profiles, subscriptions, started,
                   inflight, lastDone>>

\* lines 24-35 and 135: resolveSubscriptionTier() runs up to its first await
StartResolution(u) ==
    /\ loading' = TRUE
    /\ started' = started + 1
    /\ inflight' = inflight (+) SetToBag({NewResolution(u)})
    /\ UNCHANGED <<tier, diagnostics, profiles, subscriptions, lastDone>>

Effect(u) == IF u = None THEN EffectAbsent ELSE StartResolution(u[1])

\* lines 18-136: useEffect(..., [user]) is a passive effect: it runs after
\* the render that changed `user` (or the first render) has committed, with
\* the user of that render; replies can be delivered in between
RunEffect ==
    /\ effectPending
    /\ effectPending' = FALSE
    /\ UNCHANGED user
    /\ Effect(user)

\* a render with another user value: the dependency [user] changed (a new
\* object for the same identity is a change too, null after null is not);
\* the effect of the render before has run by then.  The render itself
\* changes no state of the hook and reaches no call in flight.
UserChange(u) ==
    /\ ~effectPending
    /\ ~(u = None /\ user = None)
    /\ u # None => started < MaxRes
    /\ user' = u
    /\ effectPending' = TRUE
    /\ UNCHANGED <<tier, loading, diagnostics, profiles, subscriptions,
                   started, inflight, lastDone>>

\* ------------------------------------------------------------------------
\* The backend answers the pending request of an in-flight call r
\* ------------------------------------------------------------------------
Calls == BagToSet(inflight)

\* the call goes on to its next await: only its own state changes
Resume(r, next) ==
    /\ inflight' = (inflight (-) SetToBag({r})) (+) SetToBag({next})
    /\ UNCHANGED <<user, effectPending, tier, loading, diagnostics, subscriptions,
                   started, lastDone>>

\* the request call r is waiting on, as it was sent (lines 95-100 for the
\* subscription query: .eq('login_id', <arg>))
Pending(r) == r.issued[Len(r.issued)]

\* what the environment did to end call r: the reply to its last request
Ended(r, reply) == [user |-> r.user, op |-> r.pc, error |-> reply.error]

\* variant: loading is not cleared when the call ends
FinallyKeepsLoading(r, final) ==
    /\ UNCHANGED loading
    /\ inflight' = inflight (-) SetToBag({r})
    /\ UNCHANGED <<user, effectPending, profiles, subscriptions, started>>

\* lines 130-132: finally { setLoading(false) }; the call is over
Finally(r, final) ==
    /\ loading' = FALSE
    /\ inflight' = inflight (-) SetToBag({r})
    /\ UNCHANGED <<user, effectPending, profiles, subscriptions, started>>

\* variant: the catch block also resets the tier
CatchResetsTier(r, final, message) ==
    /\ diagnostics' = [final.diagnosticData EXCEPT !.profileError = Some(message)]
    /\ tier' = "free"
    /\ Finally(r, final)

\* lines 124-129: catch: setDiagnostics({...diagnosticData, profileError})
Catch(r, final, message) ==
    /\ diagnostics' = [final.diagnosticData EXCEPT !.profileError = Some(message)]
    /\ UNCHANGED tier
    /\ Finally(r, final)

\* variant: only the diagnostics are published, setTier is not called
PublishDiagnosticsOnly(r, final, activeTier) ==
    /\ UNCHANGED tier
    /\ diagnostics' = final.diagnosticData
    /\ Finally(r, final)

\* variant: the result is published only when the call's identity is still
\* the hook's current user
PublishIfCurrent(r, final, activeTier) ==
    /\ IF user = Some(r.user)
       THEN tier' = activeTier /\ diagnostics' = final.diagnosticData
       ELSE UNCHANGED <<tier, diagnostics>>
    /\ Finally(r, final)

\* lines 122-123: setTier(activeTier); setDiagnostics(diagnosticData)
Publish(r, final, activeTier) ==
    /\ tier' = activeTier
    /\ diagnostics' = final.diagnosticData
    /\ Finally(r, final)

\* variant: an error reply to the exact query is thrown and ends the call
RespExactThrows(r, fail) ==
    LET reply == ExactQuery(profiles, r.user.email, fail)
    IN /\ r.pc = "exact"
       /\ IF reply.error
          THEN /\ Catch(r, [Received(r, reply) EXCEPT !.pc = "done"], MsgUnknown)
               /\ lastDone' = Some(Ended(r, reply))
          ELSE /\ Resume(r, AfterExact(r, reply))
               /\ UNCHANGED profiles

RespExact(r, fail) ==
    /\ r.pc = "exact"
    /\ Resume(r, AfterExact(r, ExactQuery(profiles, r.user.email, fail)))
    /\ UNCHANGED profiles

RespCi(r, fail) ==
    /\ r.pc = "ci"
    /\ Resume(r, AfterCi(r, CiQuery(profiles, r.user.email, fail)))
    /\ UNCHANGED profiles

\* the RPC is opaque: it answers with any of RpcResults, or fails
RespRpc(r, result, fail) ==
    /\ r.pc = "rpc"
    /\ fail => result = None
    /\ Resume(r, AfterRpc(r, Reply(result, fail)))
    /\ UNCHANGED profiles

\* variant: an upsert; a row that is already in the table is answered with
\* its id and no row is added
RespInsertOkUpsert(r) ==
    LET row == [email |-> r.user.email, auth_id |-> r.user.id]
        same == {i \in 1..Len(profiles) : profiles[i] = row}
    IN /\ r.pc = "insert"
       /\ IF same = {}
          THEN /\ profiles' = Append(profiles, row)
               /\ Resume(r, AfterInsertOk(r, Reply(Some(Len(profiles) + 1), FALSE)))
          ELSE /\ profiles' = profiles
               /\ Resume(r, AfterInsertOk(r, Reply(Some(Ascending(same)[1]), FALSE)))

\* the insert is accepted: the table gets the row { email, auth_id }
RespInsertOk(r) ==
    /\ r.pc = "insert"
    /\ profiles' = Append(profiles, [email |-> r.user.email, auth_id |-> r.user.id])
    /\ Resume(r, AfterInsertOk(r, Reply(Some(Len(profiles) + 1), FALSE)))

\* the insert is rejected (row-level security): no row is written
RespInsertError(r) ==
    /\ r.pc = "insert"
    /\ Catch(r, AfterInsertError(r, Reply(None, TRUE)), MsgProfileCreation)
    /\ lastDone' = Some(Ended(r, Reply(None, TRUE)))

RespSubOk(r) ==
    /\ r.pc = "sub"
    /\ \E reply \in SubscriptionReplies(subscriptions, Pending(r).arg[1], FALSE) :
          /\ Publish(r, AfterSubOk(r, reply), ActiveTier(reply.data))
          /\ lastDone' = Some(Ended(r, reply))

\* the thrown PostgrestError is an Error instance in some versions of the
\* client library and a plain object in others (line 128)
RespSubError(r) ==
    /\ r.pc = "sub"
    /\ \E reply \in SubscriptionReplies(subscriptions, Pending(r).arg[1], TRUE),
          message \in {MsgSubscription, MsgUnknown} :
          /\ Catch(r, AfterSubError(r, reply), message)
          /\ lastDone' = Some(Ended(r, reply))

Next ==
    \/ RunEffect
    \/ \E u \in {None} \cup {Some(w) : w \in Users} : UserChange(u)
    \/ \E r \in Calls, fail \in BOOLEAN : RespExact(r, fail)
    \/ \E r \in Calls, fail \in BOOLEAN : RespCi(r, fail)
    \/ \E r \in Calls, result \in RpcResults, fail \in BOOLEAN :
          RespRpc(r, result, fail)
    \/ \E r \in Calls : RespInsertOk(r)
    \/ \E r \in Calls : RespInsertError(r)
    \/ \E r \in Calls : RespSubOk(r)
    \/ \E r \in Calls : RespSubError(r)

Spec == Init /\ [][Next]_vars

\* the backend answers some pending request
BackendReply ==
    \E r \in Calls :
        \/ \E fail \in BOOLEAN : RespExact(r, fail) \/ RespCi(r, fail)
        \/ \E result \in RpcResults, fail \in BOOLEAN : RespRpc(r, result, fail)
        \/ RespInsertOk(r) \/ RespInsertError(r)
        \/ RespSubOk(r) \/ RespSubError(r)

\* the initial states with an empty profiles table (every stage of the
\* lookup runs, and a later call finds the row an earlier call inserted) and
\* with subscription rows for both identities
FairInit ==
    /\ Init
    /\ profiles = <<>>
    /\ \E s \in subscriptions : s.login_id = 2

\* every pending request is answered at some time: no await hangs for ever
FairSpec == FairInit /\ [][Next]_vars /\ WF_vars(BackendReply)

\* ------------------------------------------------------------------------
\* Vocabulary of the properties
\* ------------------------------------------------------------------------
\* the requests a call has sent, by name
Ops(r) == [k \in 1..Len(r.issued) |-> r.issued[k].op]

\* the stage labels a call has recorded
Stages(r) == r.diagnosticData.profileLookupStages

\* this step ends a call (its finally block runs)
CallEnds == BagCardinality(inflight') < BagCardinality(inflight)

\* this step ends call r
Ends(r) == r \in Calls /\ inflight' = inflight (-) SetToBag({r})

\* this step delivers the reply call r is waiting for
Handled(r) == r \in Calls /\ CopiesIn(r, inflight') < CopiesIn(r, inflight)

\* the exact query of call r gave no profile and its case-insensitive query
\* did not give exactly one row
Ambiguous(r) ==
    /\ Len(r.received) >= 2
    /\ r.received[1] = None
    /\ Len(r.received[2]) # 1

\* the tiers the newest subscription rows of an identity stand for: "free"
\* when it has no row or the row's tier is empty
NewestTiers(uid) ==
    LET mine == {s \in subscriptions : s.login_id = uid}
        newest == {s \in mine : \A q \in mine : s.created_at >= q.created_at}
    IN IF mine = {} THEN {"free"}
       ELSE {IF s.tier = "" THEN "free" ELSE s.tier : s \in newest}

\* the last completed call ended by the reply `error` to its request `op`
LastEnded(op, error) ==
    lastDone # None /\ lastDone[1].op = op /\ lastDone[1].error = error

\* ------------------------------------------------------------------------
\* Properties
\* ------------------------------------------------------------------------
\* C1: whenever the call that completed last ended without error, tier and
\* diagnostics.finalTier both hold the tier of a subscription row with the
\* latest created_at among the rows of that call's identity, or "free" when
\* there is no such row or its tier is empty.
C1_TierFromNewestRow ==
    LastEnded("sub", FALSE) =>
        /\ tier \in NewestTiers(lastDone[1].user.id)
        /\ diagnostics.finalTier = Some(tier)

\* identity 1 has an older "pro" row and a newer "gold" row, and its call
\* published "gold"
C1_Witness ==
    /\ LastEnded("sub", FALSE)
    /\ lastDone[1].user.id = 1
    /\ {Sub(1, "pro", 1), Sub(1, "gold", 2)} \subseteq subscriptions
    /\ tier = "gold"
    /\ diagnostics.finalTier = Some("gold")

\* C2: in every reachable state tier is "free" or the (non-empty) tier of
\* some row of the subscriptions table.
C2_TierFreeOrStored ==
    tier \in {"free"} \cup {s.tier : s \in {q \in subscriptions : q.tier # ""}}

\* both calls of a behaviour are over and the tier is one stored in the table
C2_Witness ==
    /\ started = MaxRes
    /\ inflight = EmptyBag
    /\ tier # "free"

\* C3: every run of the effect with an absent identity (after the first
\* render, or after a change of the user to null) sets loading to false,
\* sends no backend request and leaves the tier equal to "free": the result of an earlier
\* resolution is discarded.  The effect does not reset the tier, so this fails
\* when the identity becomes absent after a resolution that published
\* another tier.
C3_AbsentIdentityTierFree ==
    [][(effectPending /\ ~effectPending' /\ user = None) =>
          /\ loading' = FALSE
          /\ UNCHANGED inflight
          /\ tier' = "free"]_vars

\* C4: a run of the effect with an absent identity (the step in which the
\* pending effect of the first render, or of a render that changed the user
\* to null, runs) sets loading to false and changes neither tier nor
\* diagnostics nor the backend tables, and starts no call.
C4_AbsentEffectIsNoOp ==
    [][(effectPending /\ ~effectPending' /\ user = None) =>
          /\ loading' = FALSE
          /\ UNCHANGED <<user, tier, diagnostics, profiles, subscriptions,
                         started, inflight>>]_vars

\* the identity became absent while a call was in flight and after another
\* call had published a tier other than "free", and the effect has run
C4_Witness ==
    /\ ~effectPending
    /\ user = None
    /\ loading = FALSE
    /\ tier # "free"
    /\ inflight # EmptyBag

\* C5 (state part): a call whose exact query returned a profile has recorded
\* stage 1 only and has sent the exact query and the subscription query only.
C5_State ==
    \A r \in Calls :
        (Len(r.received) >= 1 /\ r.received[1] # None) =>
            /\ Stages(r) = <<Stage1>>
            /\ Ops(r) = <<"exact", "sub">>
            /\ r.exactMatchProfile = r.received[1]

\* C5 (step part): when such a call ends, the stages it publishes are stage 1.
C5_Step ==
    \A r \in Calls :
        (Ends(r) /\ r.received[1] # None) =>
            diagnostics'.profileLookupStages = <<Stage1>>

\* C5: if the exact query returns a profile, the recorded stages are exactly
\* <<stage 1>> and no case-insensitive query, RPC or insert is sent before the
\* subscription query.
C5_ExactMatchOnlyStage1 == []C5_State /\ [][C5_Step]_vars

\* a call that found its profile by the exact query has published its result
C5_Witness ==
    /\ LastEnded("sub", FALSE)
    /\ diagnostics.profileLookupStages = <<Stage1>>
    /\ diagnostics.finalTier # None

\* C6 (state part): no exact match and exactly one case-insensitive row: the
\* row is the profile, stages 1 and 2 are recorded, no RPC and no insert.
C6_State ==
    \A r \in Calls :
        (Len(r.received) >= 2 /\ r.received[1] = None /\ Len(r.received[2]) = 1) =>
            /\ r.exactMatchProfile = r.received[2]
            /\ Stages(r) = <<Stage1, Stage2>>
            /\ Ops(r) = <<"exact", "ci", "sub">>

\* C6 (step part): when such a call ends it publishes stages 1 and 2.
C6_Step ==
    \A r \in Calls :
        (Ends(r) /\ r.received[1] = None /\ Len(r.received[2]) = 1) =>
            diagnostics'.profileLookupStages = <<Stage1, Stage2>>

\* C6: if the exact query returns no profile and the case-insensitive query
\* exactly one row, that row is the resolved profile, the stages are exactly
\* stage 1 then stage 2, and neither the RPC nor the insert is sent.
C6_SingleCiMatchUsed == []C6_State /\ [][C6_Step]_vars

\* a call that took its profile from the only case-insensitive match has
\* published its result
C6_Witness ==
    /\ LastEnded("sub", FALSE)
    /\ diagnostics.profileLookupStages = <<Stage1, Stage2>>
    /\ diagnostics.finalTier # None

\* C7 (state part): after an ambiguous (or empty) case-insensitive reply the
\* call has gone on to the RPC with no profile and no error in its
\* diagnosticData.
C7_State ==
    \A r \in Calls :
        Ambiguous(r) =>
            /\ Len(Ops(r)) >= 3
            /\ SubSeq(Ops(r), 1, 3) = <<"exact", "ci", "rpc">>
            /\ SubSeq(Stages(r), 1, 3) = <<Stage1, Stage2, Stage3>>
            /\ r.pc = "rpc" => r.exactMatchProfile = None
            /\ r.diagnosticData.profileError = None
            /\ r.diagnosticData.subscriptionError = None

\* C7 (step part): the step that delivers a case-insensitive reply ends no
\* call and leaves the published diagnostics alone.
C7_Step ==
    \A r \in Calls :
        (r.pc = "ci" /\ Handled(r)) => (~CallEnds /\ diagnostics' = diagnostics)

\* C7: if the exact query returns no profile and the case-insensitive query
\* returns two or more rows (or none), no row is accepted and the call goes
\* on to the stage-3 RPC; no error is recorded for the ambiguity.
C7_AmbiguousCiFallsThrough == []C7_State /\ [][C7_Step]_vars

\* a call got two case-insensitive rows and is waiting for the RPC
C7_Witness ==
    \E r \in Calls :
        /\ r.pc = "rpc"
        /\ r.received[1] = None
        /\ Len(r.received[2]) >= 2

\* C8: a call has sent the profile insert only after the exact query, the
\* case-insensitive query and the RPC, in this order, each without yielding a
\* profile; once the insert has succeeded the call has recorded the success
\* marker after stage 4, holds the new row as its profile and has sent the
\* subscription query.
C8_InsertOnlyAfterAllLookups ==
    \A r \in Calls :
        (\E k \in 1..Len(r.issued) : r.issued[k].op = "insert") =>
            /\ Len(r.received) >= 3
            /\ SubSeq(Ops(r), 1, 4) = <<"exact", "ci", "rpc", "insert">>
            /\ r.received[1] = None
            /\ Len(r.received[2]) # 1
            /\ r.received[3] \in {None, Some(0)}
            /\ Len(r.received) >= 4 =>
                  /\ r.received[4] # None
                  /\ r.exactMatchProfile = r.received[4]
                  /\ profiles[r.received[4][1]] =
                        [email |-> r.user.email, auth_id |-> r.user.id]
                  /\ Stages(r) = <<Stage1, Stage2, Stage3, Stage4, StageCreated>>
                  /\ Ops(r) = <<"exact", "ci", "rpc", "insert", "sub">>
                  /\ r.pc = "sub"

\* a call created its profile and is waiting for the subscription query
C8_Witness ==
    \E r \in Calls : Len(r.received) = 4 /\ r.pc = "sub"

\* C9 as stated: after a call ended by a failed insert, the tier is "free".
\* This fails when an earlier call had published another tier.
C9_TierFreeAfterInsertFailure ==
    LastEnded("insert", TRUE) => tier = "free"

\* C9 (step part, amended): the step in which an insert fails ends the call:
\* it has sent the four requests up to the insert and nothing else, the
\* published diagnostics are stages 1-4 plus the fatal marker with a
\* profileError message and no finalTier, no row is written, loading becomes
\* false and the tier is left as it was.
C9_Step ==
    (CallEnds /\ lastDone'[1].op = "insert" /\ lastDone'[1].error) =>
        \E r \in Calls :
            /\ r.pc = "insert"
            /\ Ends(r)
            /\ Ops(r) = <<"exact", "ci", "rpc", "insert">>
            /\ diagnostics' =
                  [profileLookupStages |->
                       <<Stage1, Stage2, Stage3, Stage4, StageFatal>>,
                   finalTier |-> None,
                   subscriptionError |-> None,
                   profileError |-> Some(MsgProfileCreation)]
            /\ profiles' = profiles
            /\ loading' = FALSE
            /\ tier' = tier

\* C9 (amended): a failed insert aborts the call without a subscription query
\* and without a retry, publishes the fatal marker and a profileError and no
\* finalTier, and leaves the tier unchanged.
C9_InsertFailureAborts == [][C9_Step]_vars

\* an insert failed after an earlier call had published a tier other than
\* "free": the tier is still that tier
C9_Witness ==
    /\ LastEnded("insert", TRUE)
    /\ tier # "free"
    /\ diagnostics.profileError = Some(MsgProfileCreation)

\* C10 (step part): the step in which the subscription query fails ends the
\* call, leaves the tier as it was and publishes the call's diagnosticData
\* with the subscriptionError payload, a profileError message and no
\* finalTier.
C10_Step ==
    (CallEnds /\ lastDone'[1].op = "sub" /\ lastDone'[1].error) =>
        \E r \in Calls :
            /\ r.pc = "sub"
            /\ Ends(r)
            /\ tier' = tier
            /\ loading' = FALSE
            /\ diagnostics'.profileLookupStages = Stages(r)
            /\ diagnostics'.subscriptionError = Some(SubscriptionErrorPayload)
            /\ diagnostics'.profileError \in {Some(MsgSubscription), Some(MsgUnknown)}
            /\ diagnostics'.finalTier = None

\* C10: when the subscription query returns an error the call aborts without
\* calling setTier; the published diagnostics hold the subscriptionError
\* payload and a profileError message and no finalTier.
C10_SubscriptionErrorKeepsTier == [][C10_Step]_vars

\* a subscription query failed after an earlier call had published a tier
\* other than "free": the tier is still that tier
C10_Witness ==
    /\ LastEnded("sub", TRUE)
    /\ tier # "free"
    /\ diagnostics.subscriptionError = Some(SubscriptionErrorPayload)
    /\ diagnostics.finalTier = None

\* C11 (state part): once every started call has completed, loading is false.
C11_State == (started > 0 /\ inflight = EmptyBag) => loading = FALSE

\* C11 (step part): the step that ends a call, by success or by failure, sets
\* loading to false.
C11_Step == CallEnds => loading' = FALSE

\* C11: provided every pending request is answered, every call that has
\* started ends, and ending sets loading to false on the success path and on
\* both failure paths; when no started call is left, loading is false.
C11_LoadingCleared ==
    /\ []C11_State
    /\ [][C11_Step]_vars
    /\ (inflight # EmptyBag) ~> (inflight = EmptyBag /\ loading = FALSE)

\* all calls of a behaviour are over, the last one ended by a failed insert
C11_Witness ==
    /\ started = MaxRes
    /\ inflight = EmptyBag
    /\ loading = FALSE
    /\ LastEnded("insert", TRUE)

\* sequence p is a prefix of sequence q
IsPrefix(p, q) == Len(p) <= Len(q) /\ SubSeq(q, 1, Len(p)) = p

\* C12 (step part): a step that resumes a call without ending it keeps the
\* stage labels recorded so far as a prefix of the new list and does not
\* write the published diagnostics; the published diagnostics change only in
\* a step that ends a call, and then they hold that call's labels, extended.
C12_Step ==
    /\ \A r \in Calls :
          (Handled(r) /\ ~CallEnds) =>
              /\ diagnostics' = diagnostics
              /\ \E n \in BagToSet(inflight') :
                    /\ inflight' = (inflight (-) SetToBag({r})) (+) SetToBag({n})
                    /\ n.user = r.user
                    /\ IsPrefix(Stages(r), Stages(n))
    /\ diagnostics' # diagnostics => CallEnds
    /\ CallEnds =>
          \E r \in Calls :
              /\ Ends(r)
              /\ IsPrefix(Stages(r), diagnostics'.profileLookupStages)
              /\ diagnostics'.profileError # None \/ diagnostics'.finalTier # None

\* C12: within one call the list of stage labels only grows, and the call
\* writes the published diagnostics once, in the step that ends it.
C12_StagesAppendOnly == [][C12_Step]_vars

\* a call has recorded five labels and is still running, after another call
\* has published its diagnostics
C12_Witness ==
    /\ lastDone # None
    /\ \E r \in Calls :
          /\ Len(Stages(r)) = 5
          /\ diagnostics.profileLookupStages # Stages(r)

\* C13 (state part): when the call that completed last succeeded and belongs
\* to an identity other than the current user, tier and diagnostics still
\* hold that call's result.
C13_State ==
    (LastEnded("sub", FALSE) /\ user # Some(lastDone[1].user)) =>
        /\ tier \in NewestTiers(lastDone[1].user.id)
        /\ diagnostics.finalTier = Some(tier)

\* C13 (step part): a change of the user cancels no call in flight.
C13_Step ==
    user' # user =>
        \A r \in Calls : CopiesIn(r, inflight') >= CopiesIn(r, inflight)

\* C13: nothing guards against out-of-order completion: a call started for an
\* earlier identity stays in flight when the user changes, and when it ends
\* last its result is what tier and diagnostics hold.
C13_NoStalenessGuard == []C13_State /\ [][C13_Step]_vars

\* two calls were started, the second one for identity 2 (the current user),
\* both are over, identity 1's call completed last and the hook shows
\* identity 1's "gold" although identity 2's newest tier is empty
C13_Witness ==
    /\ started = 2
    /\ inflight = EmptyBag
    /\ user = Some([id |-> 2, email |-> EmailUpper])
    /\ LastEnded("sub", FALSE)
    /\ lastDone[1].user.id = 1
    /\ tier = "gold"
    /\ diagnostics.finalTier = Some("gold")
    /\ NewestTiers(2) = {"free"}

\* the order in which the code issues its requests
RequestOrder == <<"exact", "ci", "rpc", "insert", "sub">>

\* the position of every request in that order
Positions ==
    [op \in {RequestOrder[i] : i \in 1..Len(RequestOrder)} |->
        CHOOSE i \in 1..Len(RequestOrder) : RequestOrder[i] = op]

OrderOf(op) == Positions[op]

\* the reply `data` to lookup `op` yielded no profile
NoProfile(op, data) ==
    CASE op = "exact" -> data = None
      [] op = "ci" -> Len(data) # 1
      [] op = "rpc" -> ~Truthy(data)

\* C14: the requests a call has issued are in the order exact, ci, rpc,
\* insert, sub, each at most once; every request but the last has been
\* answered before the next one was issued, so one request is outstanding;
\* and a lookup after the first is issued only when every earlier lookup
\* yielded no profile.
C14_RequestsInOrder ==
    \A r \in Calls :
        LET ops == Ops(r)
            at == [k \in 1..Len(ops) |-> OrderOf(ops[k])]
        IN /\ \A j, k \in 1..Len(ops) : j < k => at[j] < at[k]
           /\ Len(r.issued) = Len(r.received) + 1
           /\ r.pc = ops[Len(ops)]
           /\ \A k \in 1..Len(ops) :
                 ops[k] \in {"ci", "rpc"} =>
                     \A j \in 1..(k - 1) : NoProfile(ops[j], r.received[j])

\* a call that has issued all five requests, next to a call that went from
\* the exact query straight to the subscription query
C14_Witness ==
    /\ \E r \in Calls : Ops(r) = RequestOrder
    /\ \E r \in Calls : Ops(r) = <<"exact", "sub">>

\* call r has had its insert accepted
Inserted(r) == Len(r.received) >= 4

\* C15: profile creation is not idempotent: every accepted insert has added a
\* row of its own, so two calls of one identity whose inserts were both
\* accepted stand for two rows with that identity's email.
C15_EveryInsertAddsARow ==
    \A r \in Calls :
        Inserted(r) =>
            /\ CopiesIn(r, inflight) = 1
            /\ \A q \in Calls \ {r} :
                  (Inserted(q) /\ q.user = r.user) =>
                      /\ q.received[4] # r.received[4]
                      /\ profiles[q.received[4][1]] = profiles[r.received[4][1]]
                      /\ profiles[r.received[4][1]].email = r.user.email

\* two overlapping calls of one identity have both inserted: the table holds
\* two rows with that identity's email and id
C15_Witness ==
    \E r, q \in Calls :
        /\ r # q /\ r.user = q.user
        /\ Inserted(r) /\ Inserted(q)
        /\ \E i, j \in 1..Len(profiles) :
              /\ i # j
              /\ profiles[i] = profiles[j]
              /\ profiles[i] = [email |-> r.user.email, auth_id |-> r.user.id]

\* C16: whenever the published diagnostics carry a finalTier, tier equals it.
C16_TierIsFinalTier ==
    diagnostics.finalTier # None => tier = diagnostics.finalTier[1]

\* a call has published "pro" while another call is still in flight
C16_Witness ==
    /\ diagnostics.finalTier = Some("pro")
    /\ tier = "pro"
    /\ inflight # EmptyBag

\* C17: loading is true whenever a call is in flight: in every state where
\* loading is false, no started call is still waiting for a reply.
C17_LoadingWhileInFlight == loading = FALSE => inflight = EmptyBag

\* C18 (counterexample): two successful calls of one identity that end one
\* after the other publish the same tier.
C18_SameIdentitySameTier ==
    [][\A r \in Calls :
          (/\ Ends(r)
           /\ LastEnded("sub", FALSE) /\ lastDone[1].user.id = r.user.id
           /\ lastDone'[1].op = "sub" /\ ~lastDone'[1].error) =>
              tier' = tier]_vars

\* C18 (state part): the subscription query is keyed by the identity's id and
\* by nothing else, whatever profile the call has resolved.
C18_State ==
    \A r \in Calls : r.pc = "sub" => Pending(r).arg = <<r.user.id>>

\* C18 (step part): a successful call publishes one of the tiers of its
\* identity's newest subscription rows; when those rows agree on the tier and
\* the call that ended before it was a successful call of the same identity,
\* the tier does not change.
C18_Step ==
    \A r \in Calls :
        (Ends(r) /\ lastDone'[1].op = "sub" /\ ~lastDone'[1].error) =>
            /\ tier' \in NewestTiers(r.user.id)
            /\ (/\ Cardinality(NewestTiers(r.user.id)) = 1
                /\ LastEnded("sub", FALSE)
                /\ lastDone[1].user.id = r.user.id) => tier' = tier

\* C18: the tier a call resolves depends on the identity's id and the
\* subscriptions table only, not on the profile found or the stage that
\* found it: two successful calls of one identity give the same tier when the
\* identity's newest rows agree on it, and in any case a tier of such a row.
C18_TierIndependentOfProfile == []C18_State /\ [][C18_Step]_vars

\* a call that went through the insert of stage 4 waits for its subscription
\* reply after a successful call of the same identity published "gold"
\* having found its profile in stage 1
C18_Witness ==
    /\ LastEnded("sub", FALSE)
    /\ tier = "gold"
    /\ diagnostics.profileLookupStages = <<Stage1>>
    /\ \E r \in Calls :
          /\ r.user = lastDone[1].user
          /\ r.pc = "sub"
          /\ Inserted(r)

\* the rows of the table that were there from the start and match `email`
\* exactly (the rows the hook inserts carry an auth_id other than 0)
InitialExact(email) ==
    {i \in 1..Len(profiles) : profiles[i] = Row(email)}

\* the lookup that follows lookup `op` when no profile has been found
NextAfter(op) == RequestOrder[OrderOf(op) + 1]

\* C19 (state part): a call whose exact query matched more than one row has
\* gone on to stage 2 with no profile and no error in its diagnostics.
C19_State ==
    \A r \in Calls :
        (Cardinality(InitialExact(r.user.email)) > 1 /\ Len(r.received) >= 1) =>
            /\ r.received[1] = None
            /\ Len(Ops(r)) >= 2 /\ Ops(r)[2] = "ci"
            /\ SubSeq(Stages(r), 1, 2) = <<Stage1, Stage2>>
            /\ r.diagnosticData.profileError = None

\* C19 (step part): a step that answers a lookup of call r with no data,
\* as every error reply does, ends no call, leaves the published diagnostics
\* alone, and leaves r with no profile, no error field, the label of the
\* next stage appended and the next stage's request pending.
C19_Step ==
    \A r \in Calls :
        (Handled(r) /\ r.pc \in {"exact", "ci", "rpc"}) =>
            /\ ~CallEnds
            /\ diagnostics' = diagnostics
            /\ \E n \in BagToSet(inflight') :
                  /\ inflight' = (inflight (-) SetToBag({r})) (+) SetToBag({n})
                  /\ Len(n.received) = Len(r.received) + 1
                  /\ n.diagnosticData.profileError = None
                  /\ n.diagnosticData.subscriptionError = None
                  /\ n.received[Len(n.received)] = None =>
                        /\ n.exactMatchProfile = None
                        /\ n.pc = NextAfter(r.pc)
                        /\ Len(Stages(n)) = Len(Stages(r)) + 1
                        /\ IsPrefix(Stages(r), Stages(n))

\* C19: an error reply to the exact query, the case-insensitive query or the
\* RPC never aborts the call and is never recorded in the diagnostics: the
\* stage counts as "no profile" and the next stage runs; so does an exact
\* query that matched more than one row.
C19_LookupErrorsFallThrough == []C19_State /\ [][C19_Step]_vars

\* the table holds two rows with the identity's exact email, and two equal
\* rows match case-insensitively: the call got no data from the exact query
\* (more than one row) and none from the case-insensitive query (an error,
\* as two rows match), then none from the RPC, and its insert is pending
C19_Witness ==
    \E r \in Calls :
        /\ Cardinality(InitialExact(r.user.email)) = 2
        /\ r.received = <<None, None, None>>
        /\ r.pc = "insert"
        /\ Stages(r) = <<Stage1, Stage2, Stage3, Stage4>>
        /\ r.diagnosticData.profileError = None

====
